---- MODULE Spec2Model ----
(***************************************************************************)
(* A model of the comic library manager: the record model and the shared   *)
(* book cells (src/src/library.rs), the persistence service (Library::load *)
(* and Library::save), the archive image service (load_images) and the     *)
(* application's update function with its background tasks                 *)
(* (src/src/main.rs).                                                      *)
(*                                                                         *)
(* The specifications share the variables:                                 *)
(*   Spec        the application's edits and saves: App::update, the load  *)
(*               task issued by App::new and the save tasks issued by      *)
(*               SaveLibrary, which run on the executor's threads beside   *)
(*               the update thread;                                        *)
(*   SpecView    the application's screens and image tasks: imports,       *)
(*               navigation, the viewer, the cover and page tasks;         *)
(*   SpecViewFair the same with the tasks scheduled fairly;                *)
(*   SpecApi     the records of the library API called sequentially        *)
(*               (add_book, set_title, set_author, get_book, get_books);   *)
(*   SpecPersist the same with save and load;                              *)
(*   SpecImages  load_images applied to bounded archives;                  *)
(*   SpecPages   load_cover_image and the indexed context applied to the   *)
(*               same archives.                                            *)
(*                                                                         *)
(* Strings are sequences of one-character strings, "" is <<>>.  An         *)
(* Option<T> is a sequence of length at most one: None is <<>>, Some(x) is *)
(* <<x>>.  An Arc<RwLock<Book>> is the index of its cell in heap, so two   *)
(* handles alias the same record exactly when they are the same index.     *)
(***************************************************************************)
EXTENDS Integers, Sequences, FiniteSets, TLC

VARIABLES
    heap,       \* the Book held by each allocated cell (Arc<RwLock<Book>>)
    readers,    \* per cell: the tasks holding the RwLock for reading
    writer,     \* per cell: whether the update thread holds it for writing
    library,    \* App.library / the API caller's Library: version, books
    file,       \* the content of the library file
    perm,       \* whether the library file can be read and written
    appState,   \* App.state
    ui,         \* the update thread: idle, or inside a book.write()
    loadTask,   \* the Library::load task issued by App::new
    saves,      \* the Library::save tasks issued by SaveLibrary
    edits,      \* how many set_title and set_author calls were applied
    handles,    \* API caller: the handles returned by add_book
    lastLoad,   \* API caller: the outcome of the latest load call
    lastSave,   \* API caller: the outcome of a save of the library as it is
    archive,    \* image service: the zip archive (SpecView: at each path)
    imgCall,    \* image service: the load_images call in progress
    image_cache,\* App.image_cache: the cover stored under each id
    covers,     \* the load_cover_image tasks issued by App::update
    pages       \* the load_images tasks issued by OpenBookViewer

vars == <<heap, readers, writer, library, file, perm, appState, ui, loadTask,
          saves, edits, handles, lastLoad, lastSave, archive, imgCall,
          image_cache, covers, pages>>

appVars == <<appState, ui, loadTask, saves>>
apiVars == <<handles, lastLoad, lastSave>>
imgVars == <<archive, imgCall>>
lockVars == <<readers, writer>>
viewVars == <<image_cache, covers, pages>>

(***************************************************************************)
(* Bounds of the model.                                                    *)
(***************************************************************************)
MaxBooks == 2
MaxEdits == 2
MaxSaves == 2

(***************************************************************************)
(* Options and strings.                                                    *)
(***************************************************************************)
None == <<>>

Some(x) == <<x>>

IsSome(o) == Len(o) = 1

Unwrap(o) == o[1]

EmptyStr == <<>>

\* The titles and authors a user types.
Texts == {<<"A">>, <<"B">>}

\* A byte that is no valid UTF-8: OsStr::to_str fails on a name holding it.
BadByte == "\\xFF"

\* OsStr::to_str / Path::to_str: None unless the bytes are valid UTF-8.
to_str(os) == IF \E i \in 1..Len(os) : os[i] = BadByte THEN None ELSE Some(os)

(***************************************************************************)
(* Paths.  A path is modelled by its final component (its directories play *)
(* no part in any operation of the library); <<>> is a path without a file *)
(* name, such as "/".                                                      *)
(***************************************************************************)
PathPlain == <<"a", ".", "z">>
PathTwoDots == <<"b", ".", "1", ".", "z">>
PathHidden == <<".", "h">>
PathNoName == <<>>
PathNotUtf8 == <<BadByte, ".", "z">>

Paths == {PathPlain, PathTwoDots, PathHidden, PathNoName, PathNotUtf8}

\* The positions of the dots of a name.
Dots(name) == {i \in 1..Len(name) : name[i] = "."}

Max(S) == CHOOSE x \in S : \A y \in S : y <= x

\* Path::file_stem: None without a file name; the whole name when it has no
\* dot or its only dot is the first character; else the part before the
\* last dot.
file_stem(path) ==
    IF path = <<>> THEN None
    ELSE IF Dots(path) = {} THEN Some(path)
    ELSE IF Max(Dots(path)) = 1 THEN Some(path)
    ELSE Some(SubSeq(path, 1, Max(Dots(path)) - 1))

(***************************************************************************)
(* Book (library.rs 12-66).                                                *)
(***************************************************************************)
Book_new(path, id) ==
    [id |-> id, author |-> None, path |-> path, tags |-> <<>>, title |-> None]

get_id(b) == b.id

get_path(b) == b.path

get_titleNoStem(b) ==
    IF IsSome(b.title) THEN Unwrap(b.title)
    ELSE IF IsSome(to_str(b.path)) THEN Unwrap(to_str(b.path)) ELSE EmptyStr

\* self.title, or else the path's file stem when it is UTF-8, or else "".
get_title(b) ==
    IF IsSome(b.title) THEN Unwrap(b.title)
    ELSE IF IsSome(file_stem(b.path)) /\ IsSome(to_str(Unwrap(file_stem(b.path))))
         THEN Unwrap(to_str(Unwrap(file_stem(b.path))))
         ELSE EmptyStr

set_titleClearingAuthor(b, t) == [b EXCEPT !.title = Some(t), !.author = None]

set_title(b, t) == [b EXCEPT !.title = Some(t)]

get_author(b) == IF IsSome(b.author) THEN Unwrap(b.author) ELSE EmptyStr

set_author(b, a) == [b EXCEPT !.author = Some(a)]

(***************************************************************************)
(* The persisted document (serde_json).  A JSON value is a record tagged   *)
(* by t; the bytes of a file are the JSON value they spell (to_vec_pretty  *)
(* only adds white space), NotJson for bytes that spell none, and Missing  *)
(* for no file.                                                            *)
(***************************************************************************)
JNull == [t |-> "null"]

JStr(s) == [t |-> "str", s |-> s]

JArr(a) == [t |-> "arr", a |-> a]

JObj(o) == [t |-> "obj", o |-> o]

NotJson == [t |-> "garbage"]

Missing == [t |-> "missing"]

Digits == <<"1", "2", "3", "4", "5", "6", "7", "8", "9">>

\* Uuid as serde writes it: its hyphenated text.
UuidText(id) == <<"#", Digits[id]>>

\* Uuid::parse_str, as serde reads an id.
ParseUuid(s) ==
    IF Len(s) = 2 /\ s[1] = "#" /\ \E n \in 1..Len(Digits) : Digits[n] = s[2]
    THEN Some(CHOOSE n \in 1..Len(Digits) : Digits[n] = s[2])
    ELSE None

\* Option<String>: null or the string.
SerOption(o) == IF IsSome(o) THEN JStr(Unwrap(o)) ELSE JNull

MsgParse == "Unable to parse JSON file"
MsgSave == "Unable to save library file"
MsgSerialize == "Unable to serialize library"

Ok(v) == [ok |-> TRUE, v |-> v]

Err(e) == [ok |-> FALSE, e |-> e]

SerializeBookNullAsEmpty(b) ==
    IF IsSome(to_str(b.path))
    THEN Ok(JObj([id |-> JStr(UuidText(b.id)),
                  author |-> IF IsSome(b.author) THEN JStr(Unwrap(b.author))
                             ELSE JStr(EmptyStr),
                  path |-> JStr(Unwrap(to_str(b.path))),
                  tags |-> JArr([i \in 1..Len(b.tags) |-> JStr(b.tags[i])]),
                  title |-> IF IsSome(b.title) THEN JStr(Unwrap(b.title))
                            ELSE JStr(EmptyStr)]))
    ELSE Err("path contains invalid UTF-8 characters")

\* derive(Serialize) for Book: the fields in declaration order; a PathBuf
\* that is not UTF-8 fails to serialize.
SerializeBook(b) ==
    IF IsSome(to_str(b.path))
    THEN Ok(JObj([id |-> JStr(UuidText(b.id)),
                  author |-> SerOption(b.author),
                  path |-> JStr(Unwrap(to_str(b.path))),
                  tags |-> JArr([i \in 1..Len(b.tags) |-> JStr(b.tags[i])]),
                  title |-> SerOption(b.title)]))
    ELSE Err("path contains invalid UTF-8 characters")

\* A Library by value: its version and the Book of each of its cells.
LibraryValue(lib, h) ==
    [version |-> lib.version, books |-> [i \in 1..Len(lib.books) |-> h[lib.books[i]]]]

\* Library::to_json_bytes on a library given by value.
to_json_bytes(lv) ==
    LET ser == [i \in 1..Len(lv.books) |-> SerializeBook(lv.books[i])] IN
    IF \A i \in 1..Len(lv.books) : ser[i].ok
    THEN Ok(JObj([version |-> JStr(lv.version),
                  books |-> JArr([i \in 1..Len(lv.books) |-> ser[i].v])]))
    ELSE Err(MsgSerialize)

\* Deserialize for Option<String>: a missing key or null is None.
DeOptionOk(o, k) == k \notin DOMAIN o \/ o[k].t \in {"null", "str"}

DeOption(o, k) == IF k \in DOMAIN o /\ o[k].t = "str" THEN Some(o[k].s) ELSE None

\* derive(Deserialize) for Book: id, path and tags are required.
DeBookOk(j) ==
    /\ j.t = "obj"
    /\ {"id", "path", "tags"} \subseteq DOMAIN j.o
    /\ j.o.id.t = "str" /\ IsSome(ParseUuid(j.o.id.s))
    /\ j.o.path.t = "str"
    /\ j.o.tags.t = "arr" /\ \A i \in 1..Len(j.o.tags.a) : j.o.tags.a[i].t = "str"
    /\ DeOptionOk(j.o, "author")
    /\ DeOptionOk(j.o, "title")

DeBook(j) ==
    [id |-> Unwrap(ParseUuid(j.o.id.s)),
     author |-> DeOption(j.o, "author"),
     path |-> j.o.path.s,
     tags |-> [i \in 1..Len(j.o.tags.a) |-> j.o.tags.a[i].s],
     title |-> DeOption(j.o, "title")]

DeLibraryOk(j) ==
    /\ j.t = "obj"
    /\ {"version", "books"} \subseteq DOMAIN j.o
    /\ j.o.version.t = "str"
    /\ j.o.books.t = "arr"
    /\ \A i \in 1..Len(j.o.books.a) : DeBookOk(j.o.books.a[i])

\* serde_json::from_slice::<Library>: a library by value, or the parse error.
from_slice(bytes) ==
    IF DeLibraryOk(bytes)
    THEN Ok([version |-> bytes.o.version.s,
             books |-> [i \in 1..Len(bytes.o.books.a) |-> DeBook(bytes.o.books.a[i])]])
    ELSE Err(MsgParse)

Version10 == <<"1", ".", "0">>

\* impl Default for Library.
DefaultLibrary == [version |-> Version10, books |-> <<>>]

\* tokio::fs::read succeeds on a file that exists and may be read.
ReadOk(f, pm) == f # Missing /\ pm.r

\* tokio::fs::write succeeds where the file may be created or overwritten.
WriteOk(pm) == pm.w

\* Library::save on a library by value: the result and the file afterwards.
SaveFn(lv, f, pm) ==
    LET json == to_json_bytes(lv) IN
    IF ~json.ok THEN [res |-> json, file |-> f]
    ELSE IF ~WriteOk(pm) THEN [res |-> Err(MsgSave), file |-> f]
    ELSE [res |-> Ok(<<>>), file |-> json.v]

LoadFnIgnoreSaveError(f, pm) ==
    LET saved == SaveFn(DefaultLibrary, f, pm) IN
    IF ReadOk(f, pm)
    THEN [res |-> from_slice(f), file |-> f]
    ELSE [res |-> Ok(DefaultLibrary), file |-> saved.file]

LoadFnDefaultOnParseError(f, pm) ==
    LET saved == SaveFn(DefaultLibrary, f, pm) IN
    IF ReadOk(f, pm) /\ from_slice(f).ok
    THEN [res |-> from_slice(f), file |-> f]
    ELSE IF saved.res.ok
         THEN [res |-> Ok(DefaultLibrary), file |-> saved.file]
         ELSE [res |-> saved.res, file |-> saved.file]

\* Library::load: the result (a library by value, or the error) and the file
\* afterwards.
LoadFn(f, pm) ==
    LET saved == SaveFn(DefaultLibrary, f, pm) IN
    IF ReadOk(f, pm)
    THEN [res |-> from_slice(f), file |-> f]
    ELSE IF saved.res.ok
         THEN [res |-> Ok(DefaultLibrary), file |-> saved.file]
         ELSE [res |-> saved.res, file |-> saved.file]

(***************************************************************************)
(* Library (library.rs 109-125), on the cells of heap.                     *)
(***************************************************************************)
get_books(lib) == lib.books

\* The first cell of books holding the id, 0 for None.
get_book(lib, h, id) ==
    IF \E i \in 1..Len(lib.books) : h[lib.books[i]].id = id
    THEN lib.books[CHOOSE i \in 1..Len(lib.books) :
                       /\ h[lib.books[i]].id = id
                       /\ \A j \in 1..(i - 1) : h[lib.books[j]].id # id]
    ELSE 0

\* Uuid::new_v4: a random id, which no record of the program holds.  Ids
\* are only compared for equality, so one fresh id stands for all of them.
new_v4(h) == CHOOSE n \in 1..(Len(h) + 1) : \A c \in 1..Len(h) : h[c].id # n

add_bookCopy(lib, h, path, id) ==
    [heap |-> h \o <<Book_new(path, id), Book_new(path, id)>>,
     library |-> [lib EXCEPT !.books = Append(@, Len(h) + 1)],
     ret |-> Len(h) + 2]

add_bookFirst(lib, h, path, id) ==
    [heap |-> Append(h, Book_new(path, id)),
     library |-> [lib EXCEPT !.books = <<Len(h) + 1>> \o @],
     ret |-> Len(h) + 1]

\* add_book: a new cell holding Book::new(path), pushed on books; the handle
\* returned is a clone of the Arc pushed.
add_book(lib, h, path, id) ==
    [heap |-> Append(h, Book_new(path, id)),
     library |-> [lib EXCEPT !.books = Append(@, Len(h) + 1)],
     ret |-> Len(h) + 1]

\* The documents the library file may hold when the program starts.
DocBookA == JObj([id |-> JStr(UuidText(1)), author |-> JNull,
                  path |-> JStr(PathPlain), tags |-> JArr(<<JStr(<<"t">>)>>),
                  title |-> JStr(<<"A">>)])
DocBookBare == JObj([id |-> JStr(UuidText(2)), path |-> JStr(PathTwoDots),
                     tags |-> JArr(<<>>)])
DocBookSameId == JObj([id |-> JStr(UuidText(1)), author |-> JStr(<<"B">>),
                       path |-> JStr(PathHidden), tags |-> JArr(<<>>),
                       title |-> JNull])
DocBookNoId == JObj([author |-> JNull, path |-> JStr(PathPlain),
                     tags |-> JArr(<<>>), title |-> JNull])

DocOf(books) == JObj([version |-> JStr(Version10), books |-> JArr(books)])

FileInputs ==
    {Missing, NotJson, DocOf(<<>>), DocOf(<<DocBookA>>),
     DocOf(<<DocBookA, DocBookBare>>), DocOf(<<DocBookA, DocBookSameId>>),
     DocOf(<<DocBookNoId>>)}

Perms == [r : BOOLEAN, w : BOOLEAN]

(***************************************************************************)
(* States shared by the specifications.                                    *)
(***************************************************************************)
Cells == 1..Len(heap)

Range(q) == {q[i] : i \in 1..Len(q)}

\* The lock word of every cell of a heap h: the cells already there keep
\* theirs, a new cell starts unlocked.
ReadersFor(h) == [c \in 1..Len(h) |-> IF c <= Len(readers) THEN readers[c] ELSE {}]

WriterFor(h) == [c \in 1..Len(h) |-> IF c <= Len(writer) THEN writer[c] ELSE FALSE]

UiIdle == [pc |-> "idle"]

\* lastSave: no save was made of the library as it is now.
NoSave == "none"

NoLoad == [fresh |-> FALSE, created |-> FALSE]

\* What is kept of a load once the caller goes on: whether it created the
\* file.
Trim(l) == [fresh |-> FALSE, created |-> l.created]

NoCall == [pc |-> "none"]

AppIdle ==
    /\ appState = [tag |-> "Loading"]
    /\ ui = UiIdle
    /\ loadTask = [pc |-> "none"]
    /\ saves = <<>>

ApiIdle ==
    /\ handles = <<>>
    /\ lastLoad = NoLoad
    /\ lastSave = NoSave

ImagesIdle ==
    /\ archive = <<>>
    /\ imgCall = NoCall

ViewIdle ==
    /\ image_cache = <<>>
    /\ covers = <<>>
    /\ pages = <<>>

\* Library::default() with no cell allocated, beside a library file in any
\* state.
InitStore ==
    /\ heap = <<>>
    /\ readers = <<>>
    /\ writer = <<>>
    /\ library = DefaultLibrary
    /\ edits = 0
    /\ file \in FileInputs
    /\ perm \in Perms

(***************************************************************************)
(* SpecApi and SpecPersist: the library API, called sequentially by one    *)
(* caller that keeps the handles add_book returned.  Each handle is kept   *)
(* with what the caller did with it: the path given, the books before and  *)
(* after the call, and the latest title and author set on the record of    *)
(* that id.  SpecApi exercises the records (add_book, set_title,           *)
(* set_author, get_book, get_books) over every kind of path; SpecPersist   *)
(* adds save and load.  The latest load is kept, in the state it returns   *)
(* to, with the file before and after it, whether it followed a successful *)
(* save of the unedited library (afterSave, with that library in expect),  *)
(* and whether it is the second of two loads, the first having created the *)
(* file and nothing having written it since.                               *)
(***************************************************************************)
InitApi ==
    /\ InitStore /\ AppIdle /\ ApiIdle /\ ImagesIdle /\ ViewIdle
    /\ file = Missing
    /\ perm = [r |-> TRUE, w |-> TRUE]

InitPersist == InitStore /\ AppIdle /\ ApiIdle /\ ImagesIdle /\ ViewIdle

\* library.add_book(path), for a path of P
AddBookOf(P) ==
    \E path \in P :
        LET id == new_v4(heap)
            r == add_book(library, heap, path, id) IN
        /\ Len(heap) < MaxBooks
        /\ heap' = r.heap
        /\ library' = r.library
        /\ readers' = ReadersFor(r.heap)
        /\ writer' = WriterFor(r.heap)
        /\ handles' = Append(handles,
                             [h |-> r.ret, id |-> id, path |-> path,
                              title |-> None, author |-> None,
                              before |-> library.books, after |-> r.library.books,
                              cells |-> Len(r.heap) - Len(heap)])
        /\ lastSave' = NoSave
        /\ lastLoad' = Trim(lastLoad)
        /\ UNCHANGED <<file, perm, edits, appVars, imgVars, viewVars>>

ApiAddBook == AddBookOf(Paths)

\* The paths of the books a persisted library is built from.
PersistPaths == {PathPlain, PathNotUtf8}

PersistAddBook == AddBookOf(PersistPaths)

\* The handles the caller can reach: those add_book returned and those of
\* get_books() (get_book(id) returns one of the latter).
Reachable == {handles[i].h : i \in 1..Len(handles)} \cup Range(get_books(library))

\* book.write().unwrap().set_title(t) through any reachable handle, for a
\* text of T
SetTitleOf(T) ==
    \E c \in Reachable, t \in T :
        /\ edits < MaxEdits
        /\ heap' = [heap EXCEPT ![c] = set_title(@, t)]
        /\ edits' = edits + 1
        /\ handles' = [i \in 1..Len(handles) |->
                          IF handles[i].id = heap[c].id
                          THEN [handles[i] EXCEPT !.title = Some(t)]
                          ELSE handles[i]]
        /\ lastSave' = NoSave
        /\ lastLoad' = Trim(lastLoad)
        /\ UNCHANGED <<library, file, perm, lockVars, appVars, imgVars, viewVars>>

ApiSetTitle == SetTitleOf(Texts)

\* The text set on the books of a persisted library.
PersistTexts == {<<"A">>}

PersistSetTitle == SetTitleOf(PersistTexts)

\* book.write().unwrap().set_author(a) through any reachable handle, for a
\* text of T
SetAuthorOf(T) ==
    \E c \in Reachable, a \in T :
        /\ edits < MaxEdits
        /\ heap' = [heap EXCEPT ![c] = set_author(@, a)]
        /\ edits' = edits + 1
        /\ handles' = [i \in 1..Len(handles) |->
                          IF handles[i].id = heap[c].id
                          THEN [handles[i] EXCEPT !.author = Some(a)]
                          ELSE handles[i]]
        /\ lastSave' = NoSave
        /\ lastLoad' = Trim(lastLoad)
        /\ UNCHANGED <<library, file, perm, lockVars, appVars, imgVars, viewVars>>

ApiSetAuthor == SetAuthorOf(Texts)

PersistSetAuthor == SetAuthorOf(PersistTexts)

\* library.clone().save(path).await
ApiSave ==
    LET r == SaveFn(LibraryValue(library, heap), file, perm) IN
    /\ file' = r.file
    /\ lastSave' = IF r.res.ok THEN "saved" ELSE "failed"
    /\ lastLoad' = [Trim(lastLoad) EXCEPT !.created = @ /\ r.file = file]
    /\ UNCHANGED <<heap, library, perm, edits, handles, lockVars, appVars, imgVars,
                   viewVars>>

\* library = Library::load(path).await?: on success the caller's library
\* and handles are dropped for the loaded one, whose books are new cells.
ApiLoad ==
    LET r == LoadFn(file, perm) IN
    /\ file' = r.file
    /\ lastLoad' = [fresh |-> TRUE,
                    created |-> ~ReadOk(file, perm) /\ r.res.ok,
                    before |-> file, readOk |-> ReadOk(file, perm),
                    res |-> r.res, after |-> r.file,
                    afterSave |-> lastSave = "saved",
                    expect |-> LibraryValue(library, heap),
                    second |-> lastLoad.created]
    /\ IF r.res.ok
       THEN /\ heap' = r.res.v.books
            /\ library' = [version |-> r.res.v.version,
                           books |-> [i \in 1..Len(r.res.v.books) |-> i]]
            /\ readers' = [c \in 1..Len(r.res.v.books) |-> {}]
            /\ writer' = [c \in 1..Len(r.res.v.books) |-> FALSE]
            /\ handles' = <<>>
       ELSE UNCHANGED <<heap, library, readers, writer, handles, viewVars>>
    /\ UNCHANGED <<perm, edits, lastSave, appVars, imgVars, viewVars>>

NextApi == ApiAddBook \/ ApiSetTitle \/ ApiSetAuthor

SpecApi == InitApi /\ [][NextApi]_vars

NextPersist ==
    PersistAddBook \/ PersistSetTitle \/ PersistSetAuthor \/ ApiSave \/ ApiLoad

SpecPersist == InitPersist /\ [][NextPersist]_vars

(***************************************************************************)
(* Spec: the application.  App::update runs on one thread, one message at  *)
(* a time; the messages are those the widgets of the current view emit     *)
(* (view, main.rs 328-344) and the results of the tasks.  The tasks run on *)
(* the executor's threads: the load task issued by App::new and one save   *)
(* task for each SaveLibrary.  A save task serializes the clone of the     *)
(* library it was given: for each book in turn it takes the read lock of   *)
(* the cell, writes the fields in declaration order and releases the lock  *)
(* (serde's Serialize for RwLock); then it writes the file.  A task also   *)
(* carries, for the claims, the library by value when the save was issued  *)
(* (issued) and at each instant since (seen).                              *)
(***************************************************************************)
\* RwLock::read on the cell: granted unless a writer holds it.
CanRead(c) == ~writer[c]

CanWriteIgnoringReaders(c) == ~writer[c]

\* RwLock::write on the cell: granted when nobody holds it.
CanWrite(c) == ~writer[c] /\ readers[c] = {}

\* The library file the application starts on: a library of two books, no
\* file, bytes that are no document, a library that cannot be written
\* back, and no file where none can be created.
AppInputs ==
    {[file |-> DocOf(<<DocBookA, DocBookBare>>), perm |-> [r |-> TRUE, w |-> TRUE]],
     [file |-> Missing, perm |-> [r |-> TRUE, w |-> TRUE]],
     [file |-> NotJson, perm |-> [r |-> TRUE, w |-> TRUE]],
     [file |-> DocOf(<<DocBookA>>), perm |-> [r |-> TRUE, w |-> FALSE]],
     [file |-> Missing, perm |-> [r |-> TRUE, w |-> FALSE]]}

InitApp ==
    /\ InitStore /\ ApiIdle /\ ImagesIdle /\ ViewIdle
    /\ [file |-> file, perm |-> perm] \in AppInputs
    /\ appState = [tag |-> "Loading"]
    /\ ui = UiIdle
    /\ loadTask = [pc |-> "running"]
    /\ saves = <<>>

\* The load task: Library::load(flags.library_file).
LoadRun ==
    /\ loadTask.pc = "running"
    /\ file' = LoadFn(file, perm).file
    /\ loadTask' = [pc |-> "done", res |-> LoadFn(file, perm).res]
    /\ UNCHANGED <<heap, library, perm, lockVars, appState, ui, saves, edits,
                   apiVars, imgVars, viewVars>>

\* Message::Loaded(Ok(library)) and Message::Loaded(Err(e))
Loaded ==
    /\ ui = UiIdle
    /\ loadTask.pc = "done"
    /\ loadTask' = [pc |-> "delivered"]
    /\ IF loadTask.res.ok
       THEN /\ heap' = loadTask.res.v.books
            /\ library' = [version |-> loadTask.res.v.version,
                           books |-> [i \in 1..Len(loadTask.res.v.books) |-> i]]
            /\ readers' = [c \in 1..Len(loadTask.res.v.books) |-> {}]
            /\ writer' = [c \in 1..Len(loadTask.res.v.books) |-> FALSE]
            /\ appState' = [tag |-> "Library"]
       ELSE /\ appState' = [tag |-> "Errored", e |-> loadTask.res.e]
            /\ UNCHANGED <<heap, library, readers, writer, viewVars>>
    /\ UNCHANGED <<file, perm, ui, saves, edits, apiVars, imgVars, viewVars>>

\* The paths the file dialog returns.
DialogPaths == {PathPlain, PathNotUtf8}

\* Message::ImportSingleBook: the dialog returns None, or a path.
ImportSingleBook ==
    /\ ui = UiIdle
    /\ appState.tag = "Library"
    /\ \/ UNCHANGED vars
       \/ \E path \in DialogPaths :
            LET r == add_book(library, heap, path, new_v4(heap)) IN
            /\ Len(heap) < MaxBooks
            /\ heap' = r.heap
            /\ library' = r.library
            /\ readers' = ReadersFor(r.heap)
            /\ writer' = WriterFor(r.heap)
            /\ appState' = [tag |-> "EditBook", book |-> r.ret]
            /\ UNCHANGED <<file, perm, ui, loadTask, saves, edits, apiVars, imgVars,
                   viewVars>>

\* Message::OpenBookDetails(book), from the library view and from the list
\* of the details view.
OpenBookDetails ==
    /\ ui = UiIdle
    /\ appState.tag \in {"Library", "BookDetails", "EditBook"}
    /\ \E c \in Range(get_books(library)) :
         appState' = [tag |-> "BookDetails", book |-> c]
    /\ UNCHANGED <<heap, library, file, perm, lockVars, ui, loadTask, saves,
                   edits, apiVars, imgVars, viewVars>>

\* Message::ReturnToLibrary, from the details view.
ReturnToLibrary ==
    /\ ui = UiIdle
    /\ appState.tag \in {"BookDetails", "EditBook"}
    /\ appState' = [tag |-> "Library"]
    /\ UNCHANGED <<heap, library, file, perm, lockVars, ui, loadTask, saves,
                   edits, apiVars, imgVars, viewVars>>

\* The text the user types in the inputs of the details view.
TypedTexts == {<<"B">>}

\* Message::BookTitleChanged(book, title), from the details view of book:
\* book.write() is granted.
BookTitleChanged ==
    /\ ui = UiIdle
    /\ appState.tag \in {"BookDetails", "EditBook"}
    /\ edits < MaxEdits
    /\ CanWrite(appState.book)
    /\ \E t \in TypedTexts :
         ui' = [pc |-> "writing", call |-> "set_title", book |-> appState.book,
                text |-> t]
    /\ writer' = [writer EXCEPT ![appState.book] = TRUE]
    /\ UNCHANGED <<heap, library, file, perm, readers, appState, loadTask, saves,
                   edits, apiVars, imgVars, viewVars>>

\* Message::BookAuthorChanged(book, author), from the details view of book:
\* book.write() is granted.
BookAuthorChanged ==
    /\ ui = UiIdle
    /\ appState.tag \in {"BookDetails", "EditBook"}
    /\ edits < MaxEdits
    /\ CanWrite(appState.book)
    /\ \E a \in TypedTexts :
         ui' = [pc |-> "writing", call |-> "set_author", book |-> appState.book,
                text |-> a]
    /\ writer' = [writer EXCEPT ![appState.book] = TRUE]
    /\ UNCHANGED <<heap, library, file, perm, readers, appState, loadTask, saves,
                   edits, apiVars, imgVars, viewVars>>

\* What a save task has seen of the library at one more instant.
Observe(task, h) ==
    IF task.pc \in {"ser", "reading"}
    THEN [task EXCEPT !.seen = @ \cup {LibraryValue(task.lib, h)}]
    ELSE task

\* The rest of the two handlers: set_title or set_author under the write
\* guard, which is dropped at the end of the statement.
WriteAndUnlock ==
    /\ ui.pc = "writing"
    /\ heap' = [heap EXCEPT ![ui.book] =
                   IF ui.call = "set_title" THEN set_title(@, ui.text)
                   ELSE set_author(@, ui.text)]
    /\ writer' = [writer EXCEPT ![ui.book] = FALSE]
    /\ ui' = UiIdle
    /\ edits' = edits + 1
    /\ saves' = [t \in 1..Len(saves) |-> Observe(saves[t], heap')]
    /\ UNCHANGED <<library, file, perm, readers, appState, loadTask, apiVars, imgVars,
                   viewVars>>

\* Message::SaveLibrary, from the library view: a save task is issued on
\* self.library.clone(), whose books are clones of the Arcs.
SaveLibrary ==
    /\ ui = UiIdle
    /\ appState.tag = "Library"
    /\ Len(saves) < MaxSaves
    /\ saves' = Append(saves,
                       [pc |-> "ser",
                        lib |-> library,
                        idx |-> 1,
                        out |-> <<>>,
                        issued |-> LibraryValue(library, heap),
                        seen |-> {LibraryValue(library, heap)}])
    /\ UNCHANGED <<heap, library, file, perm, lockVars, appState, ui, loadTask,
                   edits, apiVars, imgVars, viewVars>>

\* The cell a save task is at.
BookAt(task) == task.lib.books[task.idx]

\* A save task takes the read lock of its next book and serializes the
\* first fields, id and author.
SaveLockBook(t) ==
    /\ saves[t].pc = "ser"
    /\ saves[t].idx <= Len(saves[t].lib.books)
    /\ CanRead(BookAt(saves[t]))
    /\ readers' = [readers EXCEPT ![BookAt(saves[t])] = @ \cup {t}]
    /\ saves' = [saves EXCEPT ![t] =
                    [pc |-> "reading", lib |-> @.lib, idx |-> @.idx, out |-> @.out,
                     issued |-> @.issued, seen |-> @.seen,
                     id |-> heap[BookAt(@)].id,
                     author |-> heap[BookAt(@)].author]]
    /\ UNCHANGED <<heap, library, file, perm, writer, appState, ui, loadTask,
                   edits, apiVars, imgVars, viewVars>>

\* A save task serializes the other fields, path, tags and title, and
\* releases the read lock; a path that is not UTF-8 ends the task with the
\* serialization error.
SaveUnlockBook(t) ==
    LET task == saves[t]
        c == BookAt(task)
        json == SerializeBook([id |-> task.id, author |-> task.author,
                               path |-> heap[c].path, tags |-> heap[c].tags,
                               title |-> heap[c].title]) IN
    /\ task.pc = "reading"
    /\ readers' = [readers EXCEPT ![c] = @ \ {t}]
    /\ saves' = [saves EXCEPT ![t] =
                    IF json.ok
                    THEN [pc |-> "ser", lib |-> task.lib, idx |-> task.idx + 1,
                          out |-> Append(task.out, json.v),
                          issued |-> task.issued, seen |-> task.seen]
                    ELSE [pc |-> "done", lib |-> task.lib, idx |-> task.idx,
                          out |-> task.out, issued |-> task.issued,
                          seen |-> task.seen, wrote |-> FALSE,
                          res |-> Err(MsgSerialize)]]
    /\ UNCHANGED <<heap, library, file, perm, writer, appState, ui, loadTask,
                   edits, apiVars, imgVars, viewVars>>

\* A save task, all books serialized, writes the file.
SaveWrite(t) ==
    LET task == saves[t]
        bytes == JObj([version |-> JStr(task.lib.version), books |-> JArr(task.out)]) IN
    /\ task.pc = "ser"
    /\ task.idx > Len(task.lib.books)
    /\ file' = IF WriteOk(perm) THEN bytes ELSE file
    /\ saves' = [saves EXCEPT ![t] =
                    [pc |-> "done", lib |-> task.lib, idx |-> task.idx,
                     out |-> task.out, issued |-> task.issued, seen |-> task.seen,
                     wrote |-> WriteOk(perm),
                     res |-> IF WriteOk(perm) THEN Ok(<<>>) ELSE Err(MsgSave)]]
    /\ UNCHANGED <<heap, library, perm, lockVars, appState, ui, loadTask, edits,
                   apiVars, imgVars, viewVars>>

\* Message::SaveLibraryComplete(Ok(_)) and Message::SaveLibraryComplete(Err(e))
SaveLibraryComplete(t) ==
    /\ ui = UiIdle
    /\ saves[t].pc = "done"
    /\ saves' = [saves EXCEPT ![t] = [pc |-> "delivered"]]
    /\ appState' = IF saves[t].res.ok THEN appState
                   ELSE [tag |-> "Errored", e |-> saves[t].res.e]
    /\ UNCHANGED <<heap, library, file, perm, lockVars, ui, loadTask, edits,
                   apiVars, imgVars, viewVars>>

Next ==
    \/ LoadRun
    \/ Loaded
    \/ ImportSingleBook
    \/ OpenBookDetails
    \/ ReturnToLibrary
    \/ BookTitleChanged
    \/ BookAuthorChanged
    \/ WriteAndUnlock
    \/ SaveLibrary
    \/ \E t \in 1..Len(saves) : SaveLockBook(t)
    \/ \E t \in 1..Len(saves) : SaveUnlockBook(t)
    \/ \E t \in 1..Len(saves) : SaveWrite(t)
    \/ \E t \in 1..Len(saves) : SaveLibraryComplete(t)

Init == InitApp

Spec == Init /\ [][Next]_vars

(***************************************************************************)
(* SpecImages: the archive image service (library.rs 167-253) applied to   *)
(* bounded archives.  An archive is the outcome of opening the path        *)
(* (File::open, ZipArchive::new) and its entries, each a name and what its *)
(* bytes are: "image" for an image that decodes, "corrupt" for bytes that  *)
(* are no image, "unreadable" for an entry whose bytes cannot be read      *)
(* (read_to_end fails).  The names of a zip archive are distinct and       *)
(* file_names() yields them in no particular order, so the entries are a   *)
(* set.  An image::Handle made by from_memory holds the bytes of its       *)
(* entry: it is modelled by that entry.                                    *)
(***************************************************************************)
\* The characters of the entry names, in byte order.
Ascii ==
    <<".", "/", "1", "2", "3", "A", "G", "J", "N", "P", "c", "d", "e", "g", "h",
      "j", "n", "p", "t", "x">>

Code(ch) == CHOOSE i \in 1..Len(Ascii) : Ascii[i] = ch

\* char::to_lowercase on the characters of Ascii.
LowerChar(ch) ==
    CASE ch = "A" -> "a"
      [] ch = "G" -> "g"
      [] ch = "J" -> "j"
      [] ch = "N" -> "n"
      [] ch = "P" -> "p"
      [] OTHER -> ch

to_lowercase(str) == [i \in 1..Len(str) |-> LowerChar(str[i])]

starts_with(str, pre) ==
    Len(pre) <= Len(str) /\ SubSeq(str, 1, Len(pre)) = pre

ends_with(str, suf) ==
    Len(suf) <= Len(str) /\ SubSeq(str, Len(str) - Len(suf) + 1, Len(str)) = suf

\* Ord for String: byte-wise lexicographic order.
StrLess(a, b) ==
    \E k \in 0..Len(a) :
        /\ k <= Len(b)
        /\ \A i \in 1..k : a[i] = b[i]
        /\ \/ k = Len(a) /\ k < Len(b)
           \/ k < Len(a) /\ k < Len(b) /\ Code(a[k + 1]) < Code(b[k + 1])

\* The pieces of a name between its separators.
RECURSIVE SplitPath(_)
SplitPath(name) ==
    LET seps == {i \in 1..Len(name) : name[i] = "/"} IN
    IF seps = {} THEN <<name>>
    ELSE LET k == CHOOSE i \in seps : \A j \in seps : i <= j IN
         <<SubSeq(name, 1, k - 1)>> \o SplitPath(SubSeq(name, k + 1, Len(name)))

\* Path::components of a relative name: repeated separators, separators at
\* the end and "." pieces are set aside.
Components(name) ==
    LET IsComponent(c) == c # <<>> /\ c # <<".">> IN
    SelectSeq(SplitPath(name), IsComponent)

\* Path::file_name of an entry name: its last component, None when there is
\* none or when it is "..".
file_name(name) ==
    LET cs == Components(name) IN
    IF cs = <<>> \/ cs[Len(cs)] = <<".", ".">> THEN None
    ELSE Some(cs[Len(cs)])

ExtPng == <<".", "p", "n", "g">>
ExtJpg == <<".", "j", "p", "g">>
ExtJpeg == <<".", "j", "p", "e", "g">>

supported_images_filterCaseSensitive(name) ==
    /\ IsSome(file_name(name))
    /\ LET f == Unwrap(file_name(name)) IN
        /\ ~starts_with(f, <<".">>)
        /\ (ends_with(f, ExtPng) \/ ends_with(f, ExtJpg) \/ ends_with(f, ExtJpeg))

\* supported_images_filter
supported_images_filter(name) ==
    /\ IsSome(file_name(name))
    /\ LET f == to_lowercase(Unwrap(file_name(name))) IN
        /\ ~starts_with(f, <<".">>)
        /\ (ends_with(f, ExtPng) \/ ends_with(f, ExtJpg) \/ ends_with(f, ExtJpeg))

RECURSIVE SortNamesDescending(_)
SortNamesDescending(S) ==
    IF S = {} THEN <<>>
    ELSE LET greatest == CHOOSE x \in S : \A y \in S \ {x} : StrLess(y, x) IN
         <<greatest>> \o SortNamesDescending(S \ {greatest})

\* Vec::sort on distinct names: the names of a set in ascending order.
RECURSIVE SortNames(_)
SortNames(S) ==
    IF S = {} THEN <<>>
    ELSE LET least == CHOOSE x \in S : \A y \in S \ {x} : StrLess(x, y) IN
         <<least>> \o SortNames(S \ {least})

MsgOpen == "Failed to read cbz file"
MsgZip == "Unable to process cbz file"
MsgNoImage == "Selected image not found"
MsgBytes == "Unable to read bytes"
MsgNone == "No images loaded"

\* get_book_image_context: the sorted names of the supported entries.
get_book_image_context(a) ==
    IF ~a.opens THEN Err(MsgOpen)
    ELSE IF ~a.zip THEN Err(MsgZip)
    ELSE Ok(SortNames({e.name : e \in {x \in a.entries : supported_images_filter(x.name)}}))

\* The entry of the archive with the name: archive.by_name(filename).
by_name(a, name) == CHOOSE e \in a.entries : e.name = name

load_imageClamped(a, filenames, index) ==
    IF filenames = <<>> THEN Err(MsgNoImage)
    ELSE LET i == IF index + 1 > Len(filenames) THEN Len(filenames) ELSE index + 1 IN
         IF by_name(a, filenames[i]).data = "unreadable" THEN Err(MsgBytes)
         ELSE Ok(by_name(a, filenames[i]))

\* load_image(context, index), index counted from 0: the handle on the bytes
\* of the entry, whatever they are.
load_image(a, filenames, index) ==
    IF index + 1 > Len(filenames) THEN Err(MsgNoImage)
    ELSE IF by_name(a, filenames[index + 1]).data = "unreadable" THEN Err(MsgBytes)
    ELSE Ok(by_name(a, filenames[index + 1]))

MsgNoCover == "Unable to find an image in the cbz file"
MsgDecode == "Unable to processes image"

\* Iterator::reduce(|res, f| if f < res { f } else { res }) over the names
\* of a non-empty set: the least of them, in whatever order they come.
ReduceLeast(S) == CHOOSE x \in S : \A y \in S \ {x} : StrLess(x, y)

\* load_cover_image: the least supported name, its bytes read and decoded
\* (image::load_from_memory), resized and returned as pixels.  The handle
\* is modelled by the entry the pixels were made from.
load_cover_image(a) ==
    LET names == {e.name : e \in {x \in a.entries : supported_images_filter(x.name)}} IN
    IF ~a.opens THEN Err(MsgOpen)
    ELSE IF ~a.zip THEN Err(MsgZip)
    ELSE IF names = {} THEN Err(MsgNoCover)
    ELSE IF by_name(a, ReduceLeast(names)).data = "unreadable" THEN Err(MsgBytes)
    ELSE IF by_name(a, ReduceLeast(names)).data = "corrupt" THEN Err(MsgDecode)
    ELSE Ok([name |-> ReduceLeast(names), data |-> "pixels"])

NameOne == <<"1", ".", "p", "n", "g">>
NameTwo == <<"2", ".", "j", "p", "g">>
NameUpper == <<"A", ".", "J", "P", "G">>
NameNested == <<"d", "/", "3", ".", "j", "p", "e", "g">>
NameHidden == <<".", "h", ".", "p", "n", "g">>
NameText == <<"c", ".", "t", "x", "t">>
NameDir == <<"d", "/">>

EntryNames ==
    {NameOne, NameTwo, NameUpper, NameNested, NameHidden, NameText, NameDir}

EntryData == {"image", "corrupt", "unreadable"}

MaxEntries == 3

\* The archives: a path that does not open, a file that is no zip, and the
\* zip archives of at most MaxEntries entries.
Archives ==
    {[opens |-> FALSE, zip |-> FALSE, entries |-> {}],
     [opens |-> TRUE, zip |-> FALSE, entries |-> {}]}
    \cup
    {[opens |-> TRUE, zip |-> TRUE, entries |-> es] :
        es \in {x \in SUBSET [name : EntryNames, data : EntryData] :
                   /\ Cardinality(x) <= MaxEntries
                   /\ \A e, f \in x : e.name = f.name => e = f}}

InitImages ==
    /\ InitStore /\ AppIdle /\ ApiIdle /\ ViewIdle
    /\ file = Missing
    /\ perm = [r |-> TRUE, w |-> TRUE]
    /\ archive \in Archives
    /\ imgCall = NoCall

\* load_images(path): the context is opened.
ImagesOpen ==
    /\ imgCall.pc = "none"
    /\ imgCall' = IF get_book_image_context(archive).ok
                  THEN [pc |-> "loop",
                        filenames |-> get_book_image_context(archive).v,
                        index |-> 0, images |-> <<>>]
                  ELSE [pc |-> "done", res |-> get_book_image_context(archive)]
    /\ UNCHANGED <<heap, library, file, perm, lockVars, edits, appVars, apiVars,
                   archive, viewVars>>

\* load_images: one index of the filter_map, a failed load_image is skipped.
ImagesNext ==
    /\ imgCall.pc = "loop"
    /\ imgCall.index < Len(imgCall.filenames)
    /\ imgCall' = [imgCall EXCEPT
                     !.index = @ + 1,
                     !.images =
                        IF load_image(archive, imgCall.filenames, imgCall.index).ok
                        THEN Append(@, load_image(archive, imgCall.filenames,
                                                  imgCall.index).v)
                        ELSE @]
    /\ UNCHANGED <<heap, library, file, perm, lockVars, edits, appVars, apiVars,
                   archive, viewVars>>

\* load_images: the images collected, or the error when there is none.
ImagesDone ==
    /\ imgCall.pc = "loop"
    /\ imgCall.index = Len(imgCall.filenames)
    /\ imgCall' = [pc |-> "done",
                   res |-> IF imgCall.images = <<>> THEN Err(MsgNone)
                           ELSE Ok(imgCall.images)]
    /\ UNCHANGED <<heap, library, file, perm, lockVars, edits, appVars, apiVars,
                   archive, viewVars>>

NextImages == ImagesOpen \/ ImagesNext \/ ImagesDone

SpecImages == InitImages /\ [][NextImages]_vars

(***************************************************************************)
(* SpecPages: the cover of an archive (load_cover_image) and the indexed   *)
(* context (get_book_image_context, BookImageContext, load_image) applied  *)
(* to the same bounded archives.  A context holds its archive and its      *)
(* list of names; it is kept with the names of the entries whose bytes     *)
(* were read through it (read) and with the latest request made of it:     *)
(* the index, the result, and the context before the request.              *)
(***************************************************************************)
InitPages == InitImages

\* load_cover_image(path)
CoverLoad ==
    /\ imgCall.pc = "none"
    /\ imgCall' = [pc |-> "cover", res |-> load_cover_image(archive)]
    /\ UNCHANGED <<heap, library, file, perm, lockVars, edits, appVars, apiVars,
                   archive, viewVars>>

\* get_book_image_context(path)
ContextOpen ==
    /\ imgCall.pc = "none"
    /\ imgCall' = IF get_book_image_context(archive).ok
                  THEN [pc |-> "ctx", archive |-> archive,
                        filenames |-> get_book_image_context(archive).v,
                        read |-> {}, req |-> None]
                  ELSE [pc |-> "nocontext", res |-> get_book_image_context(archive)]
    /\ UNCHANGED <<heap, library, file, perm, lockVars, edits, appVars, apiVars,
                   archive, viewVars>>

\* load_image(&mut context, index), for an index in and out of the range
ContextLoad ==
    /\ imgCall.pc = "ctx"
    /\ \E index \in 0..(Len(imgCall.filenames) + 1) :
         imgCall' = [imgCall EXCEPT
                       !.read = IF index < Len(imgCall.filenames)
                                THEN @ \cup {imgCall.filenames[index + 1]}
                                ELSE @,
                       !.req = Some([index |-> index,
                                     res |-> load_image(imgCall.archive,
                                                        imgCall.filenames, index),
                                     before |-> [archive |-> imgCall.archive,
                                                 filenames |-> imgCall.filenames]])]
    /\ UNCHANGED <<heap, library, file, perm, lockVars, edits, appVars, apiVars,
                   archive, viewVars>>

NextPages == CoverLoad \/ ContextOpen \/ ContextLoad

SpecPages == InitPages /\ [][NextPages]_vars

(***************************************************************************)
(* SpecView: the application's screens and its image tasks.  App::update   *)
(* handles the messages of the widgets of the current view, the key        *)
(* presses (subscription, main.rs 308-326) and the results of the tasks:   *)
(* the load task of App::new, one load_cover_image task for each book      *)
(* loaded or imported, one load_images task for each OpenBookViewer.  A    *)
(* cover or page task reads nothing but the archive at the path it was     *)
(* given, which nobody writes, so its run is folded into the delivery of   *)
(* its result; results are delivered in any order.  No save is issued      *)
(* here, so every book.read() and book.write() of the handlers is granted  *)
(* at once and a handler is one step.  archive maps each path to the       *)
(* archive found there.  The page task whose result was delivered last is *)
(* kept with what the delivery found and did: whether the result was Ok,   *)
(* whether the viewer was open on the very cell of the task (same),        *)
(* whether the images were put in the viewer (applied) and whether         *)
(* App.state changed at all (changed).                                     *)
(***************************************************************************)
MaxViews == 2
MaxCur == 2

RECURSIVE FilterMapOk(_)
FilterMapOk(rs) ==
    IF rs = <<>> THEN <<>>
    ELSE (IF Head(rs).ok THEN <<Head(rs).v>> ELSE <<>>) \o FilterMapOk(Tail(rs))

\* load_images(path): the pages of the context that load_image returns, in
\* the order of the indices; an error when there is none.
load_images(a) ==
    LET context == get_book_image_context(a) IN
    IF ~context.ok THEN context
    ELSE LET images == FilterMapOk([i \in 1..Len(context.v) |->
                                       load_image(a, context.v, i - 1)]) IN
         IF images = <<>> THEN Err(MsgNone) ELSE Ok(images)

\* The archives behind the paths of the books: two pages, one page, a page
\* beside a text file, and a path that cannot be opened.
ArchiveOf(es) == [opens |-> TRUE, zip |-> TRUE, entries |-> es]

Disk ==
    (PathPlain :> ArchiveOf({[name |-> NameOne, data |-> "image"],
                             [name |-> NameTwo, data |-> "image"]}))
    @@ (PathTwoDots :> ArchiveOf({[name |-> NameUpper, data |-> "image"]}))
    @@ (PathHidden :> ArchiveOf({[name |-> NameNested, data |-> "image"],
                                 [name |-> NameText, data |-> "corrupt"]}))
    @@ (PathNotUtf8 :> [opens |-> FALSE, zip |-> FALSE, entries |-> {}])

\* The library file the application starts on: one book, two books, two
\* books under one id, the same book twice, no file, no document.
ViewInputs ==
    {DocOf(<<DocBookA>>), DocOf(<<DocBookA, DocBookBare>>),
     DocOf(<<DocBookA, DocBookSameId>>), DocOf(<<DocBookA, DocBookA>>),
     Missing, NotJson}

InitView ==
    /\ ApiIdle /\ ViewIdle
    /\ heap = <<>>
    /\ readers = <<>>
    /\ writer = <<>>
    /\ library = DefaultLibrary
    /\ edits = 0
    /\ file \in ViewInputs
    /\ perm = [r |-> TRUE, w |-> TRUE]
    /\ appState = [tag |-> "Loading"]
    /\ ui = UiIdle
    /\ loadTask = [pc |-> "running"]
    /\ saves = <<>>
    /\ archive = Disk
    /\ imgCall = NoCall

\* Command::perform(load_cover_image(path), |res| CoverImageLoaded(book, res))
\* for each of the cells, the path read from the heap h.
CoverTasks(cells, h) ==
    [i \in 1..Len(cells) |->
        [pc |-> "running", book |-> cells[i], path |-> get_path(h[cells[i]])]]

\* image_cache.insert(id, img)
CacheInsert(cache, id, img) ==
    [i \in DOMAIN cache \cup {id} |-> IF i = id THEN img ELSE cache[i]]

\* Message::Loaded(Ok(library)) and Message::Loaded(Err(e))
ViewLoaded ==
    /\ loadTask.pc = "done"
    /\ appState.tag # "Panicked"
    /\ loadTask' = [pc |-> "delivered"]
    /\ IF loadTask.res.ok
       THEN /\ heap' = loadTask.res.v.books
            /\ library' = [version |-> loadTask.res.v.version,
                           books |-> [i \in 1..Len(loadTask.res.v.books) |-> i]]
            /\ readers' = [c \in 1..Len(loadTask.res.v.books) |-> {}]
            /\ writer' = [c \in 1..Len(loadTask.res.v.books) |-> FALSE]
            /\ appState' = [tag |-> "Library"]
            /\ covers' = covers \o CoverTasks(library'.books, heap')
       ELSE /\ appState' = [tag |-> "Errored", e |-> loadTask.res.e]
            /\ UNCHANGED <<heap, library, readers, writer, covers>>
    /\ UNCHANGED <<file, perm, ui, saves, edits, apiVars, imgVars, image_cache,
                   pages>>

\* Message::ImportSingleBook: the dialog returns None, or a path.
ViewImportSingleBook ==
    /\ appState.tag = "Library"
    /\ \/ UNCHANGED vars
       \/ \E path \in DialogPaths :
            LET r == add_book(library, heap, path, new_v4(heap)) IN
            /\ Len(heap) < MaxBooks
            /\ heap' = r.heap
            /\ library' = r.library
            /\ readers' = ReadersFor(r.heap)
            /\ writer' = WriterFor(r.heap)
            /\ appState' = [tag |-> "EditBook", book |-> r.ret]
            /\ covers' = IF get_id(r.heap[r.ret]) \in DOMAIN image_cache
                         THEN covers
                         ELSE covers \o CoverTasks(<<r.ret>>, r.heap)
            /\ UNCHANGED <<file, perm, ui, loadTask, saves, edits, apiVars,
                           imgVars, image_cache, pages>>

\* paths.iter().map(|p| self.library.add_book(p)): the library and the heap
\* after the books of the paths were added in turn, and the handles
\* returned.
RECURSIVE AddBooks(_, _, _)
AddBooks(lib, h, paths) ==
    IF paths = <<>> THEN [heap |-> h, library |-> lib, ret |-> <<>>]
    ELSE LET r == add_book(lib, h, Head(paths), new_v4(h))
             rest == AddBooks(r.library, r.heap, Tail(paths)) IN
         [heap |-> rest.heap, library |-> rest.library,
          ret |-> <<r.ret>> \o rest.ret]

\* Message::ImportMultipleBooks: the dialog returns any number of paths.
ViewImportMultipleBooks ==
    /\ appState.tag = "Library"
    /\ \E n \in 0..(MaxBooks - Len(heap)) :
         \E paths \in [1..n -> DialogPaths] :
            LET r == AddBooks(library, heap, paths)
                IsNew(c) == get_id(r.heap[c]) \notin DOMAIN image_cache IN
            /\ heap' = r.heap
            /\ library' = r.library
            /\ readers' = ReadersFor(r.heap)
            /\ writer' = WriterFor(r.heap)
            /\ covers' = covers \o CoverTasks(SelectSeq(r.ret, IsNew), r.heap)
    /\ UNCHANGED <<file, perm, appState, ui, loadTask, saves, edits, apiVars,
                   imgVars, image_cache, pages>>

\* Message::OpenBookDetails(book): for any book, from the library view and
\* the list of the details view; for the book shown, from the Back button
\* of the viewer.
ViewOpenBookDetails ==
    /\ \/ /\ appState.tag \in {"Library", "BookDetails", "EditBook"}
          /\ \E c \in Range(get_books(library)) :
               appState' = [tag |-> "BookDetails", book |-> c]
       \/ /\ appState.tag = "Viewer"
          /\ appState' = [tag |-> "BookDetails", book |-> appState.book]
    /\ UNCHANGED <<heap, library, file, perm, lockVars, ui, loadTask, saves,
                   edits, apiVars, imgVars, viewVars>>

\* Message::ReturnToLibrary, from the details view.
ViewReturnToLibrary ==
    /\ appState.tag \in {"BookDetails", "EditBook"}
    /\ appState' = [tag |-> "Library"]
    /\ UNCHANGED <<heap, library, file, perm, lockVars, ui, loadTask, saves,
                   edits, apiVars, imgVars, viewVars>>

\* Message::BookTitleChanged(book, title), from the details view of book
ViewBookTitleChanged ==
    /\ appState.tag \in {"BookDetails", "EditBook"}
    /\ \E t \in TypedTexts :
         heap' = [heap EXCEPT ![appState.book] = set_title(@, t)]
    /\ UNCHANGED <<library, file, perm, lockVars, appState, ui, loadTask, saves,
                   edits, apiVars, imgVars, viewVars>>

\* Message::BookAuthorChanged(book, author), from the details view of book
ViewBookAuthorChanged ==
    /\ appState.tag \in {"BookDetails", "EditBook"}
    /\ \E a \in TypedTexts :
         heap' = [heap EXCEPT ![appState.book] = set_author(@, a)]
    /\ UNCHANGED <<library, file, perm, lockVars, appState, ui, loadTask, saves,
                   edits, apiVars, imgVars, viewVars>>

\* Message::OpenBookViewer(book), from the cover of the details view of book
ViewOpenBookViewer ==
    /\ appState.tag \in {"BookDetails", "EditBook"}
    /\ Len(pages) < MaxViews
    /\ appState' = [tag |-> "Viewer", book |-> appState.book, cur |-> 0,
                    images |-> <<>>]
    /\ pages' = Append(pages, [pc |-> "running", book |-> appState.book,
                               path |-> get_path(heap[appState.book])])
    /\ UNCHANGED <<heap, library, file, perm, lockVars, ui, loadTask, saves,
                   edits, apiVars, imgVars, image_cache, covers>>

\* Message::AdvancePage(go_forward), from the buttons of the viewer and
\* from the Left and Right keys in any view.  images.len() - 1 on an empty
\* list overflows usize: the handler panics when the build checks
\* overflows, and otherwise the difference wraps to usize::MAX, which cur
\* is below.
ViewAdvancePage ==
    /\ appState.tag # "Panicked"
    /\ \E go_forward \in BOOLEAN :
         IF appState.tag # "Viewer" THEN UNCHANGED appState
         ELSE IF ~go_forward /\ appState.cur > 0
              THEN appState' = [appState EXCEPT !.cur = @ - 1]
         ELSE IF ~go_forward THEN UNCHANGED appState
         ELSE IF appState.images = <<>>
              THEN \/ appState' = [tag |-> "Panicked"]
                   \/ /\ appState.cur < MaxCur
                      /\ appState' = [appState EXCEPT !.cur = @ + 1]
         ELSE IF appState.cur < Len(appState.images) - 1
              THEN appState' = [appState EXCEPT !.cur = @ + 1]
         ELSE UNCHANGED appState
    /\ UNCHANGED <<heap, library, file, perm, lockVars, ui, loadTask, saves,
                   edits, apiVars, imgVars, viewVars>>

\* Message::CoverImageLoaded(book, Ok(img)) and
\* Message::CoverImageLoaded(_book, Err(e)), for the task k
ViewCoverImageLoaded(k) ==
    LET res == load_cover_image(archive[covers[k].path]) IN
    /\ covers[k].pc = "running"
    /\ appState.tag # "Panicked"
    /\ covers' = [covers EXCEPT ![k].pc = "delivered"]
    /\ IF res.ok
       THEN /\ image_cache' = CacheInsert(image_cache,
                                          get_id(heap[covers[k].book]), res.v)
            /\ UNCHANGED appState
       ELSE /\ appState' = [tag |-> "Errored", e |-> res.e]
            /\ UNCHANGED image_cache
    /\ UNCHANGED <<heap, library, file, perm, lockVars, ui, loadTask, saves,
                   edits, apiVars, imgVars, pages>>

\* *current_book.read().unwrap() == *book.read().unwrap(): the derived
\* PartialEq of Book, field by field.
BookEq(a, b) ==
    /\ a.id = b.id
    /\ a.author = b.author
    /\ a.path = b.path
    /\ a.tags = b.tags
    /\ a.title = b.title

\* Message::BookImagesLoaded(book, Ok(images)) and
\* Message::BookImagesLoaded(_book, Err(e)), for the task k
ViewBookImagesLoaded(k) ==
    LET res == load_images(archive[pages[k].path])
        open == /\ appState.tag = "Viewer"
                /\ BookEq(heap[appState.book], heap[pages[k].book]) IN
    /\ pages[k].pc = "running"
    /\ appState.tag # "Panicked"
    /\ appState' = IF ~res.ok THEN [tag |-> "Errored", e |-> res.e]
                   ELSE IF open
                        THEN [appState EXCEPT !.cur = 0, !.images = res.v]
                        ELSE appState
    /\ pages' = [j \in 1..Len(pages) |->
                    IF j = k
                    THEN [pc |-> "delivered", book |-> pages[k].book,
                          ok |-> res.ok,
                          same |-> (appState.tag = "Viewer"
                                    /\ appState.book = pages[k].book),
                          applied |-> (res.ok /\ open),
                          changed |-> (appState' # appState)]
                    ELSE IF pages[j].pc = "delivered" THEN [pc |-> "delivered"]
                    ELSE pages[j]]
    /\ UNCHANGED <<heap, library, file, perm, lockVars, ui, loadTask, saves,
                   edits, apiVars, imgVars, image_cache, covers>>

NextView ==
    \/ LoadRun
    \/ ViewLoaded
    \/ ViewImportSingleBook
    \/ ViewImportMultipleBooks
    \/ ViewOpenBookDetails
    \/ ViewReturnToLibrary
    \/ ViewBookTitleChanged
    \/ ViewBookAuthorChanged
    \/ ViewOpenBookViewer
    \/ ViewAdvancePage
    \/ \E k \in 1..Len(covers) : ViewCoverImageLoaded(k)
    \/ \E k \in 1..Len(pages) : ViewBookImagesLoaded(k)

SpecView == InitView /\ [][NextView]_vars

\* SpecViewFair: SpecView with the scheduling of the executor.  A future
\* given to Command::perform (main.rs 112-115, 219-221, 241-244, 259-261,
\* 280-282) is spawned on the executor, which runs it to its end, and the
\* runtime hands its message to App::update as long as the application
\* runs: the load task and each cover and page task that can take its
\* step takes it in the end.  Nothing makes the user press anything.  The
\* weak fairness of the delivery of a cover or page result is written out,
\* []<>(not enabled) \/ []<>(step), with the condition under which the
\* delivery is enabled: the task runs and the application has not
\* panicked.
CoverReady(k) ==
    k \in 1..Len(covers) /\ covers[k].pc = "running" /\ appState.tag # "Panicked"

PagesReady(k) ==
    k \in 1..Len(pages) /\ pages[k].pc = "running" /\ appState.tag # "Panicked"

TasksFair ==
    /\ WF_vars(LoadRun)
    /\ WF_vars(ViewLoaded)
    /\ \A k \in 1..MaxBooks :
          \/ []<>(~CoverReady(k))
          \/ []<><<k \in 1..Len(covers) /\ ViewCoverImageLoaded(k)>>_vars
    /\ \A k \in 1..MaxViews :
          \/ []<>(~PagesReady(k))
          \/ []<><<k \in 1..Len(pages) /\ ViewBookImagesLoaded(k)>>_vars

SpecViewFair == SpecView /\ TasksFair

(***************************************************************************)
(* Claims on the archive image service, under SpecImages.                  *)
(***************************************************************************)
\* The eligible entries of the archive, and those that decode as an image.
Eligible == {e \in archive.entries : supported_images_filter(e.name)}

Good == {e \in Eligible : e.data = "image"}

\* The entries of a set in the order of their names.
InNameOrder(es) ==
    [i \in 1..Cardinality(es) |->
        CHOOSE e \in es : Cardinality({f \in es : StrLess(f.name, e.name)}) = i - 1]

\* C3 as stated: on a zip archive, load_images returns the images of the
\* eligible entries that decode, in the order of their names, and fails
\* with "No images loaded" when none of them decodes.
C3_PartialDecodeTolerance ==
    (imgCall.pc = "done" /\ archive.opens /\ archive.zip) =>
        IF Good = {} THEN imgCall.res = Err("No images loaded")
        ELSE imgCall.res = Ok(InNameOrder(Good))

\* The base filename of an entry name: its last piece, separators at the
\* end set aside.
BaseName(name) ==
    LET ends == {i \in 1..Len(name) : name[i] # "/"}
        stop == IF ends = {} THEN 0 ELSE Max(ends)
        seps == {i \in 1..stop : name[i] = "/"}
        start == IF seps = {} THEN 1 ELSE Max(seps) + 1 IN
    SubSeq(name, start, stop)

\* The extension of a base filename: what follows its last period, if any.
Extension(base) ==
    LET dots == {i \in 1..Len(base) : base[i] = "."} IN
    IF dots = {} THEN None ELSE Some(SubSeq(base, Max(dots) + 1, Len(base)))

\* The eligibility predicate as the claims word it.
EligibleName(name) ==
    /\ BaseName(name) # <<>>
    /\ BaseName(name)[1] # "."
    /\ IsSome(Extension(BaseName(name)))
    /\ to_lowercase(Unwrap(Extension(BaseName(name))))
         \in {<<"p", "n", "g">>, <<"j", "p", "g">>, <<"j", "p", "e", "g">>}

EligibleEntries == {e \in archive.entries : EligibleName(e.name)}

\* C12: on a zip archive, the pages load_images returns are the eligible
\* entries whose bytes can be read, in ascending order of their raw names;
\* an ineligible entry contributes nothing.
C12_SequenceOrdering ==
    (imgCall.pc = "done" /\ archive.opens /\ archive.zip /\ imgCall.res.ok) =>
        /\ imgCall.res.v = InNameOrder({e \in EligibleEntries : e.data # "unreadable"})
        /\ \A i, j \in 1..Len(imgCall.res.v) :
             i < j => StrLess(imgCall.res.v[i].name, imgCall.res.v[j].name)

\* load_images returned the two pages A.JPG and d/3.jpeg of an archive of
\* three entries.
C12_Witness ==
    /\ imgCall.pc = "done" /\ imgCall.res.ok
    /\ Len(imgCall.res.v) = 2
    /\ imgCall.res.v[1].name = NameUpper
    /\ imgCall.res.v[2].name = NameNested
    /\ Cardinality(archive.entries) = 3

(***************************************************************************)
(* Claims on the cover and the indexed context, under SpecPages.           *)
(***************************************************************************)
\* C11: on a zip archive, the entries load_cover_image keeps are exactly
\* the eligible ones; it fails with "Unable to find an image in the cbz
\* file" when there is none, and otherwise its outcome is that of the
\* eligible entry of least raw name in byte order: the cover made of that
\* entry, or the failure to read or decode that entry.
C11_CoverSelection ==
    (imgCall.pc = "cover" /\ archive.opens /\ archive.zip) =>
        /\ {e \in archive.entries : supported_images_filter(e.name)} = EligibleEntries
        /\ IF EligibleEntries = {}
           THEN imgCall.res = Err("Unable to find an image in the cbz file")
           ELSE LET first == InNameOrder(EligibleEntries)[1] IN
                CASE first.data = "image" ->
                        imgCall.res = Ok([name |-> first.name, data |-> "pixels"])
                  [] first.data = "corrupt" ->
                        imgCall.res = Err("Unable to processes image")
                  [] OTHER -> imgCall.res = Err("Unable to read bytes")

\* The cover of an archive holding A.JPG, d/3.jpeg and the hidden .h.png is
\* made of A.JPG.
C11_Witness ==
    /\ imgCall.pc = "cover" /\ imgCall.res.ok
    /\ imgCall.res.v.name = NameUpper
    /\ {e.name : e \in archive.entries} = {NameUpper, NameNested, NameHidden}

\* C13: a context just opened has read no entry; its count is the number
\* of eligible entries; a request for an index below the count returns the
\* page of the eligible entry that has that many eligible names below its
\* own (or fails to read its bytes); a request for any other index fails
\* with "Selected image not found"; and no request changes the archive or
\* the list of names of the context.
C13_IndexedContext ==
    (imgCall.pc = "ctx") =>
        /\ Len(imgCall.filenames) = Cardinality(EligibleEntries)
        /\ imgCall.req = None => imgCall.read = {}
        /\ IsSome(imgCall.req) =>
             LET r == Unwrap(imgCall.req) IN
             /\ imgCall.archive = r.before.archive
             /\ imgCall.filenames = r.before.filenames
             /\ IF r.index < Cardinality(EligibleEntries)
                THEN LET page == InNameOrder(EligibleEntries)[r.index + 1] IN
                     r.res = IF page.data = "unreadable"
                             THEN Err("Unable to read bytes") ELSE Ok(page)
                ELSE r.res = Err("Selected image not found")

\* The index just past the last page was requested of a context of two
\* pages, after a page was read.
C13_Witness ==
    /\ imgCall.pc = "ctx"
    /\ Len(imgCall.filenames) = 2
    /\ imgCall.read # {}
    /\ IsSome(imgCall.req)
    /\ Unwrap(imgCall.req).index = 2
    /\ ~Unwrap(imgCall.req).res.ok

(***************************************************************************)
(* Claims on the screens and the image tasks, under SpecView.              *)
(***************************************************************************)
\* C14: in every step the books of the library stay where they are, each
\* on its cell; the books change only when the load result is delivered to
\* the empty library of the start, or by new records appended at the end,
\* each as Book::new makes it under an id no record had; and the version
\* changes only with the load result.
C14_AppendOnly ==
    [][LET old == library.books
           new == library'.books
           loaded == loadTask.pc = "done" /\ loadTask'.pc = "delivered" IN
       /\ Len(old) <= Len(new)
       /\ \A i \in 1..Len(old) : new[i] = old[i] /\ new[i] <= Len(heap')
       /\ new # old =>
            \/ loaded /\ old = <<>>
            \/ \A i \in (Len(old) + 1)..Len(new) :
                 /\ new[i] = Len(heap) + i - Len(old)
                 /\ \E path \in DialogPaths, id \in 1..(Len(heap') + 1) :
                      /\ heap'[new[i]] = Book_new(path, id)
                      /\ \A c \in 1..Len(heap') : c # new[i] => heap'[c].id # id
       /\ library'.version # library.version => loaded]_vars

\* A book was imported into the library loaded with one book, and results
\* of cover and page tasks were delivered.
C14_Witness ==
    /\ loadTask.pc = "delivered"
    /\ Len(library.books) = 2
    /\ heap[library.books[1]].tags = <<<<"t">>>>
    /\ heap[library.books[2]] = Book_new(PathPlain, 2)
    /\ \E k \in 1..Len(covers) : covers[k].pc = "delivered"
    /\ \E k \in 1..Len(pages) : pages[k].pc = "delivered"

\* C16 as stated: once the results of all the cover loads issued are
\* delivered, the cache holds, under the id of each book whose load
\* succeeded, the cover of that book's archive.
C16_CacheHoldsOwnCovers ==
    (covers # <<>> /\ \A k \in 1..Len(covers) : covers[k].pc = "delivered") =>
        \A k \in 1..Len(covers) :
            LET cover == load_cover_image(archive[covers[k].path])
                id == get_id(heap[covers[k].book]) IN
            cover.ok => (id \in DOMAIN image_cache /\ image_cache[id] = cover.v)

\* The page task whose result was delivered last.
Delivery == {k \in 1..Len(pages) : "same" \in DOMAIN pages[k]}

\* C17 as stated: a successful page result is put in the viewer exactly
\* when the viewer is open on the very cell the result is for.
C17_ViewerMatchesByCell ==
    \A k \in Delivery : pages[k].ok => (pages[k].applied <=> pages[k].same)

\* C18 as stated: the handlers never overflow, and in the Viewer state cur
\* is 0 while there is no image and at most len(images) - 1 otherwise.
C18_CurInRange ==
    /\ appState.tag # "Panicked"
    /\ appState.tag = "Viewer" =>
         IF appState.images = <<>> THEN appState.cur = 0
         ELSE appState.cur \in 0..(Len(appState.images) - 1)

\* C19 as stated: a page result, Ok or Err, delivered while the viewer is
\* not open on the cell it is for, leaves App.state as it was.
C19_SupersededResultIgnored ==
    \A k \in Delivery : ~pages[k].same => ~pages[k].changed

(***************************************************************************)
(* Claims on the cover requests, under SpecViewFair.                       *)
(***************************************************************************)
\* The cover loads issued for the cell c.
CoverRequests(c) == {k \in 1..Len(covers) : covers[k].book = c}

\* Each book of the library has exactly one cover load, issued for its path.
OneRequestPerBook ==
    \A c \in Range(get_books(library)) :
        /\ Cardinality(CoverRequests(c)) = 1
        /\ \A k \in CoverRequests(c) : covers[k].path = get_path(heap[c])

\* The cover load of every book of the library succeeds.
EveryCoverLoadSucceeds ==
    \A c \in Range(get_books(library)) :
        load_cover_image(archive[get_path(heap[c])]).ok

\* The cell c is a book of the library; the cache has an entry for its id.
InLibrary(c) == c \in Range(get_books(library))

Cached(c) == c \in 1..Len(heap) /\ get_id(heap[c]) \in DOMAIN image_cache

\* C21 as stated: each book of the library, whether it came with the load
\* result or with an import, has exactly one cover load, issued for its
\* path; and in a behaviour where the tasks are scheduled fairly and the
\* cover load of every book succeeds, a book of the library is followed by
\* an entry of the cache for its id.
C21_EveryBookGetsItsCover ==
    /\ []OneRequestPerBook
    /\ ([]EveryCoverLoadSucceeds =>
            \A c \in 1..MaxBooks : InLibrary(c) ~> Cached(c))

(***************************************************************************)
(* Claims on the saves of the application, under Spec.                     *)
(***************************************************************************)
\* The save tasks that have written their document, which is then held by
\* out.
Written == {t \in 1..Len(saves) : saves[t].pc = "done" /\ saves[t].wrote}

DocWritten(task) ==
    JObj([version |-> JStr(task.lib.version), books |-> JArr(task.out)])

\* C1 as stated: the document a save writes is the library as it was when
\* the save was issued; an edit that completes later is absent from it.
C1_SaveWritesIssuedSnapshot ==
    \A t \in Written : Ok(DocWritten(saves[t])) = to_json_bytes(saves[t].issued)

\* C2 as stated: the document a save writes is the library as it was at one
\* single instant between the issue of the save and the write.
C2_SaveWritesOneInstant ==
    \A t \in Written :
        \E lv \in saves[t].seen : Ok(DocWritten(saves[t])) = to_json_bytes(lv)

\* C20 as stated: once every save issued has written the file, and the
\* library is as it was when the last of them was issued, the file holds
\* the library as it is.
C20_LastIssuedSaveWins ==
    (/\ saves # <<>>
     /\ \A t \in 1..Len(saves) : t \in Written
     /\ ui = UiIdle
     /\ saves[Len(saves)].issued = LibraryValue(library, heap))
        => Ok(file) = to_json_bytes(LibraryValue(library, heap))

(***************************************************************************)
(* Claims on the shared records, under Spec.                               *)
(***************************************************************************)
\* The save tasks that hold the read lock of a cell.
Reading == {t \in 1..Len(saves) : saves[t].pc = "reading"}

\* The save tasks that ask for the read lock of a cell.
AboutToRead ==
    {t \in 1..Len(saves) :
        saves[t].pc = "ser" /\ saves[t].idx <= Len(saves[t].lib.books)}

\* C8: a record being written has no reader and no other writer; a reader
\* holding a record has read fields that are still those of the record, so
\* that what it reads in all is the record at one instant, after the
\* writes completed before; a task asking to read a record is let in
\* whatever readers that record has and whatever happens to other records,
\* unless that very record is being written; and the update thread is let
\* in to write the record of the details view unless that very record has
\* a reader.
C8_ReadersWriterDiscipline ==
    /\ \A c \in Cells :
         writer[c] => (readers[c] = {} /\ ui.pc = "writing" /\ ui.book = c)
    /\ \A t \in 1..Len(saves) :
         (t \in Reading) <=> (\E c \in Cells : t \in readers[c])
    /\ \A t \in Reading :
         /\ t \in readers[BookAt(saves[t])]
         /\ ~writer[BookAt(saves[t])]
         /\ saves[t].id = heap[BookAt(saves[t])].id
         /\ saves[t].author = heap[BookAt(saves[t])].author
    /\ \A t \in AboutToRead :
         ~writer[BookAt(saves[t])] => ENABLED SaveLockBook(t)
    /\ (/\ ui = UiIdle /\ appState.tag \in {"BookDetails", "EditBook"}
        /\ edits < MaxEdits /\ readers[appState.book] = {})
          => ENABLED BookAuthorChanged

\* Two save tasks read one record while the update thread writes another.
C8_Witness ==
    \E c, d \in Cells :
        /\ c # d
        /\ writer[c]
        /\ Cardinality(readers[d]) = 2

(***************************************************************************)
(* Claims on the persistence service, under SpecPersist.                   *)
(***************************************************************************)
\* Two libraries by value agree on the version, the number of books and, at
\* each position, on id, path, title, author and tags.
SameLibrary(a, b) ==
    /\ a.version = b.version
    /\ Len(a.books) = Len(b.books)
    /\ \A i \in 1..Len(a.books) :
        /\ a.books[i].id = b.books[i].id
        /\ a.books[i].path = b.books[i].path
        /\ a.books[i].title = b.books[i].title
        /\ a.books[i].author = b.books[i].author
        /\ a.books[i].tags = b.books[i].tags

\* C4 as stated: a load that follows a successful save of the library, with
\* no edit in between, returns a library equal to the one saved.
C4_RoundTripAnyLoad ==
    (lastLoad.fresh /\ lastLoad.afterSave) =>
        (lastLoad.res.ok /\ SameLibrary(lastLoad.res.v, lastLoad.expect))

\* C4 amended: a load that follows a successful save of the library, with no
\* edit in between, and whose read of the file succeeds, returns a library
\* with the same version, the same number of books and, position by
\* position, the same id, path, title, author and tags.
C4_RoundTripReadableLoad ==
    (lastLoad.fresh /\ lastLoad.afterSave /\ lastLoad.readOk) =>
        (lastLoad.res.ok /\ SameLibrary(lastLoad.res.v, lastLoad.expect))

\* A load right after the save of a library of two books, one titled and
\* with an author, the other with neither.
C4_Witness ==
    /\ lastLoad.fresh /\ lastLoad.afterSave /\ lastLoad.readOk
    /\ Len(lastLoad.expect.books) = 2
    /\ \E i, j \in 1..2 :
        /\ IsSome(lastLoad.expect.books[i].title)
        /\ IsSome(lastLoad.expect.books[i].author)
        /\ ~IsSome(lastLoad.expect.books[j].title)
        /\ ~IsSome(lastLoad.expect.books[j].author)

\* The document of the default library: version "1.0" and no book.
DefaultDoc == JObj([version |-> JStr(<<"1", ".", "0">>), books |-> JArr(<<>>)])

IsDefault(lv) == lv.version = <<"1", ".", "0">> /\ lv.books = <<>>

\* C5: a load whose read fails returns the default library (version "1.0",
\* no book) and leaves its document in the file when the write succeeds,
\* and fails with the save error, the file left as it was, when the write
\* fails; a second load, after a first one created the file, returns a
\* library of version "1.0" with no book.
C5_LoadCreatesDefault ==
    /\ (lastLoad.fresh /\ ~lastLoad.readOk /\ perm.w) =>
          /\ lastLoad.res.ok /\ IsDefault(lastLoad.res.v)
          /\ lastLoad.after = DefaultDoc /\ file = DefaultDoc
          /\ IsDefault(LibraryValue(library, heap))
    /\ (lastLoad.fresh /\ ~lastLoad.readOk /\ ~perm.w) =>
          /\ ~lastLoad.res.ok /\ lastLoad.res.e = "Unable to save library file"
          /\ lastLoad.after = lastLoad.before
    /\ (lastLoad.fresh /\ lastLoad.second) =>
          (lastLoad.res.ok /\ IsDefault(lastLoad.res.v))

\* The second load, which reads the file the first one created, while the
\* caller had added a book to the library of the first.
C5_Witness ==
    /\ lastLoad.fresh /\ lastLoad.second /\ lastLoad.readOk
    /\ lastLoad.before = DefaultDoc
    /\ Len(lastLoad.expect.books) > 0

\* The file contents that can be read and are no persisted document: no
\* JSON at all, and a book without an id.
BadDocs == {NotJson, DocOf(<<DocBookNoId>>)}

\* C6: a load that reads bytes that are no persisted document fails with the
\* parse error, returns no library and leaves the file as it was.
C6_CorruptFileUntouched ==
    (lastLoad.fresh /\ lastLoad.readOk /\ lastLoad.before \in BadDocs) =>
        /\ ~lastLoad.res.ok /\ lastLoad.res.e = "Unable to parse JSON file"
        /\ lastLoad.after = lastLoad.before
        /\ file = lastLoad.before
        /\ SameLibrary(LibraryValue(library, heap), lastLoad.expect)

\* A load of a readable, writable file holding a book without an id, by a
\* caller that had added a book.
C6_Witness ==
    /\ lastLoad.fresh /\ lastLoad.readOk /\ perm.w
    /\ lastLoad.before = DocOf(<<DocBookNoId>>)
    /\ Len(library.books) > 0

\* C7 as stated: no two books of the library share an id.
C7_UniqueIds ==
    \A i, j \in 1..Len(library.books) :
        i # j => heap[library.books[i]].id # heap[library.books[j]].id

(***************************************************************************)
(* Claims on the records, under SpecApi.                                   *)
(***************************************************************************)
\* C9: add_book appended exactly one new record, as the last element of
\* books, and the handle it returned is that element; ever after, what was
\* last set through any handle of the record is what the returned handle,
\* get_books() and get_book(id) read.
C9_AddBookAliases ==
    \A i \in 1..Len(handles) :
        LET e == handles[i]
            g == get_book(library, heap, e.id)
            k == Len(e.after) IN
        /\ e.cells = 1
        /\ e.after = Append(e.before, e.h)
        /\ k <= Len(get_books(library)) /\ get_books(library)[k] = e.h
        /\ g = e.h
        /\ heap[e.h].title = e.title /\ heap[e.h].author = e.author
        /\ heap[get_books(library)[k]].title = e.title
        /\ heap[get_books(library)[k]].author = e.author
        /\ g # 0 /\ heap[g].title = e.title /\ heap[g].author = e.author

\* Two books added, the title of the first and the author of the second set.
C9_Witness ==
    /\ Len(handles) = 2
    /\ IsSome(handles[1].title) /\ IsSome(handles[2].author)
    /\ get_book(library, heap, handles[2].id) = handles[2].h

\* The file stem of a path as text: the name up to its last dot, the whole
\* name when that dot is its first character or it has none, and "" when
\* there is no name or the stem is not UTF-8.
StemOf(p) ==
    LET cuts == {k \in 2..Len(p) :
                    p[k] = "." /\ \A j \in (k + 1)..Len(p) : p[j] # "."}
        stem == IF cuts = {} THEN p
                ELSE SubSeq(p, 1, (CHOOSE k \in cuts : TRUE) - 1) IN
    IF BadByte \in Range(stem) THEN EmptyStr ELSE stem

\* C10: through the handle add_book returned, the id is the one the book
\* was created with; get_title is the file stem of the path until a title
\* is set and the title last set afterwards; get_author is "" until an
\* author is set and the author last set afterwards.
C10_FreshBookUsable ==
    \A i \in 1..Len(handles) :
        LET e == handles[i]
            b == heap[e.h] IN
        /\ get_id(b) = e.id
        /\ get_path(b) = e.path
        /\ get_title(b) = IF IsSome(e.title) THEN Unwrap(e.title) ELSE StemOf(e.path)
        /\ get_author(b) = IF IsSome(e.author) THEN Unwrap(e.author) ELSE EmptyStr

\* A fresh book whose name has two dots, untitled, beside a titled one.
C10_Witness ==
    /\ Len(handles) = 2
    /\ handles[1].path = PathTwoDots /\ ~IsSome(handles[1].title)
    /\ get_title(heap[handles[1].h]) = <<"b", ".", "1">>
    /\ IsSome(handles[2].title) /\ IsSome(handles[1].author)

\* C15: no step changes the id, the path or the tags of a record; a
\* set_title changes nothing but the title of one record, a set_author
\* nothing but the author of one record; and no other operation changes a
\* record.
C15_SettersFrame ==
    [][/\ \A c \in Cells :
            /\ c <= Len(heap')
            /\ heap'[c].id = heap[c].id
            /\ heap'[c].path = heap[c].path
            /\ heap'[c].tags = heap[c].tags
       /\ ApiSetTitle =>
            \E c \in Cells : heap' = [heap EXCEPT ![c].title = heap'[c].title]
       /\ ApiSetAuthor =>
            \E c \in Cells : heap' = [heap EXCEPT ![c].author = heap'[c].author]
       /\ edits' = edits => \A c \in Cells : heap'[c] = heap[c]]_vars

\* Of two records, the first was given a title and still has no author, the
\* second was given an author and still has no title.
C15_Witness ==
    /\ Len(heap) = 2
    /\ IsSome(heap[1].title) /\ ~IsSome(heap[1].author)
    /\ IsSome(heap[2].author) /\ ~IsSome(heap[2].title)
    /\ heap[1].path = handles[1].path /\ heap[2].path = handles[2].path

====
